---- MODULE Spec2Model ----
(***************************************************************************)
(* Model of pyhf.utils.digest (src/src/pyhf/utils.py, lines 67-107).        *)
(*                                                                         *)
(*   stringified = json.dumps(obj, sort_keys=True,                         *)
(*                            ensure_ascii=False).encode('utf8')          *)
(*   hash_alg    = getattr(hashlib, algorithm)                             *)
(*   return hash_alg(stringified).hexdigest()                              *)
(*                                                                         *)
(* Text is a sequence of Unicode code points, bytes are a sequence of     *)
(* numbers 0..255, a digest is a sequence of one-character strings.        *)
(* Python objects are records [type, val]:                                 *)
(*   NoneType  val = <<>>           bool   val = TRUE / FALSE              *)
(*   int       val = n              float  val = h, the number h/2         *)
(*   nan       float('nan')         str    val = code points               *)
(*   list      val = elements       dict   val = <<key, value>> pairs in   *)
(*                                          insertion order, keys are str  *)
(*   object    an instance json has no encoder for                         *)
(*   cycle     a reference to the container that holds it (l.append(l))    *)
(***************************************************************************)
EXTENDS Integers, Sequences, FiniteSets, TLC

VARIABLES obj, algorithm, pc, stringified, hash_alg, outcome

vars == <<obj, algorithm, pc, stringified, hash_alg, outcome>>

(***************************************************************************)
(* Bounds of the input universe.                                           *)
(***************************************************************************)
MaxInt == 2

Calls == {"t1", "t2"}

(***************************************************************************)
(* Constructors of Python objects.                                         *)
(***************************************************************************)
PyNone == [type |-> "NoneType", val |-> <<>>]

PyBool(b) == [type |-> "bool", val |-> b]

PyInt(n) == [type |-> "int", val |-> n]

PyFloat(h) == [type |-> "float", val |-> h]

PyNaN == [type |-> "nan", val |-> <<>>]

PyStr(s) == [type |-> "str", val |-> s]

PyList(l) == [type |-> "list", val |-> l]

PyDict(d) == [type |-> "dict", val |-> d]

PyObject == [type |-> "object", val |-> <<>>]

PyCycle == [type |-> "cycle", val |-> <<>>]

(***************************************************************************)
(* Exceptions: the class hierarchy of the built-in exceptions involved.    *)
(***************************************************************************)
ExcBase ==
  [UnicodeEncodeError |-> "UnicodeError", UnicodeError |-> "ValueError",
   ValueError |-> "Exception", TypeError |-> "Exception",
   AttributeError |-> "Exception", Exception |-> "BaseException"]

RECURSIVE IsInstance(_, _)
IsInstance(exc, cls) ==
  \/ exc = cls
  \/ /\ exc \in DOMAIN ExcBase
     /\ IsInstance(ExcBase[exc], cls)

NoExc == "none"

Ok(t) == [exc |-> NoExc, msg |-> "", text |-> t]

Raise(e, m) == [exc |-> e, msg |-> m, text |-> <<>>]

(***************************************************************************)
(* json.dumps(obj, sort_keys=True, ensure_ascii=False)                     *)
(***************************************************************************)
HexChars == <<48, 49, 50, 51, 52, 53, 54, 55, 56, 57, 97, 98, 99, 100, 101, 102>>

RECURSIVE IntRepr(_)
IntRepr(n) ==
  IF n < 10 THEN <<48 + n>> ELSE IntRepr(n \div 10) \o <<48 + (n % 10)>>

\* the shortest form, which writes 1.0 as 1
FloatReprShortest(h) ==
  IF h % 2 = 0 THEN IntRepr(h \div 2) ELSE IntRepr(h \div 2) \o <<46, 53>>

\* float.__repr__ of the number h/2
FloatRepr(h) ==
  IntRepr(h \div 2) \o <<46>> \o (IF h % 2 = 0 THEN <<48>> ELSE <<53>>)

EscapeChar(c) ==
  CASE c = 34 -> <<92, 34>>
    [] c = 92 -> <<92, 92>>
    [] c = 10 -> <<92, 110>>
    [] c = 13 -> <<92, 114>>
    [] c = 9  -> <<92, 116>>
    [] c = 8  -> <<92, 98>>
    [] c = 12 -> <<92, 102>>
    [] c < 32 /\ c \notin {8, 9, 10, 12, 13} ->
         <<92, 117, 48, 48, HexChars[(c \div 16) + 1], HexChars[(c % 16) + 1]>>
    [] OTHER -> <<c>>

RECURSIVE EscapeBody(_)
EscapeBody(s) ==
  IF s = <<>> THEN <<>> ELSE EscapeChar(Head(s)) \o EscapeBody(Tail(s))

encode_basestring(s) == <<34>> \o EscapeBody(s) \o <<34>>

RECURSIVE StrLess(_, _)
StrLess(a, b) ==
  IF a = <<>> THEN b # <<>>
  ELSE IF b = <<>> THEN FALSE
  ELSE IF Head(a) # Head(b) THEN Head(a) < Head(b)
  ELSE StrLess(Tail(a), Tail(b))

RECURSIVE InsertItem(_, _)
InsertItem(it, sorted) ==
  IF sorted = <<>> THEN <<it>>
  ELSE IF StrLess(it[1], Head(sorted)[1]) THEN <<it>> \o sorted
  ELSE <<Head(sorted)>> \o InsertItem(it, Tail(sorted))

\* sort_keys=False: the items in insertion order
InsertionOrder(items) == items

\* sort_keys=True: sorted(dct.items())
RECURSIVE SortItems(_)
SortItems(items) ==
  IF items = <<>> THEN <<>>
  ELSE InsertItem(Head(items), SortItems(Tail(items)))

RECURSIVE dumps(_)
RECURSIVE JoinList(_, _)
RECURSIVE JoinDict(_, _)

JoinList(l, first) ==
  IF l = <<>> THEN Ok(<<>>)
  ELSE LET h == dumps(Head(l))
       IN IF h.exc # NoExc THEN h
          ELSE LET r == JoinList(Tail(l), FALSE)
               IN IF r.exc # NoExc THEN r
                  ELSE Ok((IF first THEN <<>> ELSE <<44, 32>>) \o h.text \o r.text)

JoinDict(items, first) ==
  IF items = <<>> THEN Ok(<<>>)
  ELSE LET h == dumps(Head(items)[2])
       IN IF h.exc # NoExc THEN h
          ELSE LET r == JoinDict(Tail(items), FALSE)
               IN IF r.exc # NoExc THEN r
                  ELSE Ok((IF first THEN <<>> ELSE <<44, 32>>)
                          \o encode_basestring(Head(items)[1]) \o <<58, 32>>
                          \o h.text \o r.text)

dumps(o) ==
  CASE o.type = "NoneType" -> Ok(<<110, 117, 108, 108>>)
    [] o.type = "bool" ->
         Ok(IF o.val THEN <<116, 114, 117, 101>> ELSE <<102, 97, 108, 115, 101>>)
    [] o.type = "int" -> Ok(IntRepr(o.val))
    [] o.type = "float" -> Ok(FloatRepr(o.val))
    [] o.type = "nan" -> Ok(<<78, 97, 78>>)
    [] o.type = "str" -> Ok(encode_basestring(o.val))
    [] o.type = "list" ->
         LET b == JoinList(o.val, TRUE)
         IN IF b.exc # NoExc THEN b ELSE Ok(<<91>> \o b.text \o <<93>>)
    [] o.type = "dict" ->
         LET b == JoinDict(SortItems(o.val), TRUE)
         IN IF b.exc # NoExc THEN b ELSE Ok(<<123>> \o b.text \o <<125>>)
    [] o.type = "cycle" -> Raise("ValueError", "Circular reference detected")
    [] OTHER -> Raise("TypeError", "Object is not JSON serializable")

(***************************************************************************)
(* str.encode('utf8')                                                      *)
(***************************************************************************)
IsSurrogate(c) == c >= 55296 /\ c <= 57343

Utf8Char(c) ==
  IF c < 128 THEN <<c>>
  ELSE IF c < 2048 THEN <<192 + (c \div 64), 128 + (c % 64)>>
  ELSE IF c < 65536
    THEN <<224 + (c \div 4096), 128 + ((c \div 64) % 64), 128 + (c % 64)>>
  ELSE <<240 + (c \div 262144), 128 + ((c \div 4096) % 64),
         128 + ((c \div 64) % 64), 128 + (c % 64)>>

RECURSIVE Utf8Body(_)
Utf8Body(t) ==
  IF t = <<>> THEN <<>> ELSE Utf8Char(Head(t)) \o Utf8Body(Tail(t))

encode(t) ==
  IF \E i \in 1..Len(t) : IsSurrogate(t[i])
  THEN Raise("UnicodeEncodeError", "surrogates not allowed")
  ELSE Ok(Utf8Body(t))

(***************************************************************************)
(* hashlib: the attributes of the module that getattr can find.  A "hash"  *)
(* is a fixed-length constructor, an "xof" an extendable-output one whose  *)
(* hexdigest needs a length, a "function" a helper such as hashlib.new,    *)
(* and "data" a non-callable attribute such as algorithms_guaranteed.      *)
(***************************************************************************)
Attr(n, k, sz) == [name |-> n, kind |-> k, size |-> sz]

Unbound == Attr("", "unbound", 0)

hashlib ==
  ("sha256" :> Attr("sha256", "hash", 32))
  @@ ("sha1" :> Attr("sha1", "hash", 20))
  @@ ("md5" :> Attr("md5", "hash", 16))
  @@ ("shake_128" :> Attr("shake_128", "xof", 0))
  @@ ("new" :> Attr("new", "function", 0))
  @@ ("algorithms_guaranteed" :> Attr("algorithms_guaranteed", "data", 0))

getattr(name) ==
  IF name \in DOMAIN hashlib
  THEN [exc |-> NoExc, msg |-> "", attr |-> hashlib[name]]
  ELSE [exc |-> "AttributeError", msg |-> "module 'hashlib' has no attribute",
        attr |-> Unbound]

(***************************************************************************)
(* The compression function lives outside the repository (OpenSSL); it is  *)
(* modelled by a mixing function with the constructor's output length.     *)
(***************************************************************************)
RECURSIVE Absorb(_, _)
Absorb(acc, data) ==
  IF data = <<>> THEN acc
  ELSE Absorb((acc * 33 + Head(data)) % 65521, Tail(data))

HashBytes(attr, data) ==
  LET acc == Absorb(attr.size, data)
  IN [i \in 1..attr.size |-> (acc * i + (acc \div 251) + attr.size) % 256]

HexDigits ==
  <<"0", "1", "2", "3", "4", "5", "6", "7", "8", "9", "a", "b", "c", "d", "e", "f">>

\* '%x' of a byte, without the leading zero
HexByteUnpadded(b) ==
  IF b < 16 THEN <<HexDigits[b + 1]>>
  ELSE <<HexDigits[(b \div 16) + 1], HexDigits[(b % 16) + 1]>>

HexByte(b) == <<HexDigits[(b \div 16) + 1], HexDigits[(b % 16) + 1]>>

RECURSIVE hexlify(_)
hexlify(bs) ==
  IF bs = <<>> THEN <<>> ELSE HexByte(Head(bs)) \o hexlify(Tail(bs))

(***************************************************************************)
(* Outcomes of a call.                                                     *)
(***************************************************************************)
NoOutcome == [status |-> "none", value |-> <<>>, exc |-> NoExc, msg |-> ""]

Returned(v) == [status |-> "returned", value |-> v, exc |-> NoExc, msg |-> ""]

Raised(e, m) == [status |-> "raised", value |-> <<>>, exc |-> e, msg |-> m]

MsgNotSerializable ==
  "The supplied object is not JSON-serializable for calculating a hash."

MsgNotAlgorithm == "is not an algorithm provided by Python's hashlib library."

\* line 96: json.dumps(...).encode('utf8')
Stringify(o) ==
  LET d == dumps(o)
  IN IF d.exc # NoExc THEN d ELSE encode(d.text)

\* line 96 without its handler: whatever was raised leaves the call
PropagateRaised(e) == [pc |-> "done", outcome |-> Raised(e.exc, e.msg)]

\* a handler that drops the exception and goes on with the lookup
SwallowRaised(e) == [pc |-> "line102", outcome |-> NoOutcome]

\* lines 97-100: except TypeError: raise ValueError(...)
except_TypeError(e) ==
  IF IsInstance(e.exc, "TypeError")
  THEN [pc |-> "done", outcome |-> Raised("ValueError", MsgNotSerializable)]
  ELSE [pc |-> "done", outcome |-> Raised(e.exc, e.msg)]

\* line 102 without its handler: the AttributeError leaves the call
PropagateAttributeError(e) == [pc |-> "done", outcome |-> Raised(e.exc, e.msg)]

\* lines 103-106: except AttributeError: raise ValueError(...)
except_AttributeError(e) ==
  IF IsInstance(e.exc, "AttributeError")
  THEN [pc |-> "done", outcome |-> Raised("ValueError", MsgNotAlgorithm)]
  ELSE [pc |-> "done", outcome |-> Raised(e.exc, e.msg)]

\* line 107: hash_alg(stringified).hexdigest()
hexdigest(attr, data) ==
  CASE attr.kind = "hash" -> Returned(hexlify(HashBytes(attr, data)))
    [] attr.kind = "xof" ->
         Raised("TypeError", "hexdigest() missing required argument 'length'")
    [] attr.kind = "function" -> Raised("TypeError", "name must be a string")
    [] OTHER -> Raised("TypeError", "object is not callable")

\* digest(obj, algorithm) run from line 95 to its return or raise
digest(o, a) ==
  LET s == Stringify(o)
      g == getattr(a)
  IN IF s.exc # NoExc THEN except_TypeError(s).outcome
     ELSE IF g.exc # NoExc THEN except_AttributeError(g).outcome
     ELSE hexdigest(g.attr, s.text)

(***************************************************************************)
(* The inputs the calls are made with.                                     *)
(***************************************************************************)
KeyA == <<97>>

KeyB == <<98>>

KeyC == <<99>>

KeyZ == <<122>>

KeyEAcute == <<233>>

Ints == {PyInt(i) : i \in 1..MaxInt}

Leaves ==
  Ints \cup {PyFloat(2), PyBool(TRUE), PyNone, PyNaN, PyStr(<<233, 34, 10>>)}

Lists == {PyList(<<PyInt(i), PyInt(j)>>) : i, j \in 1..MaxInt} \ {PyList(<<PyInt(i), PyInt(i)>>) : i \in 1..MaxInt}

\* {'a': 2.0, 'b': 3.0, 'c': 1.0} of the docstring, built in two orders
DictABC == PyDict(<< <<KeyA, PyFloat(4)>>, <<KeyB, PyFloat(6)>>, <<KeyC, PyFloat(2)>> >>)

DictCAB == PyDict(<< <<KeyC, PyFloat(2)>>, <<KeyA, PyFloat(4)>>, <<KeyB, PyFloat(6)>> >>)

DictOther == PyDict(<< <<KeyA, PyFloat(6)>>, <<KeyB, PyFloat(4)>>, <<KeyC, PyFloat(2)>> >>)

NestedZE ==
  PyDict(<< <<KeyZ, PyDict(<< <<KeyZ, PyInt(1)>>, <<KeyEAcute, PyInt(2)>> >>)>>,
            <<KeyEAcute, PyNone>> >>)

NestedEZ ==
  PyDict(<< <<KeyEAcute, PyNone>>,
            <<KeyZ, PyDict(<< <<KeyEAcute, PyInt(2)>>, <<KeyZ, PyInt(1)>> >>)>> >>)

Dicts == {DictABC, DictCAB, DictOther, NestedZE, NestedEZ}

LoneSurrogate == PyStr(<<55296>>)

CyclicList == PyList(<<PyInt(1), PyCycle>>)

Unserializable == {PyObject, CyclicList, LoneSurrogate}

Objects == Leaves \cup Lists \cup Dicts \cup Unserializable

AlgorithmNames ==
  {"sha256", "sha1", "md5", "not-a-real-algorithm", "new", "algorithms_guaranteed"}

(***************************************************************************)
(* The calls.  Each call has its own frame: obj, algorithm, stringified,   *)
(* hash_alg, the line it is at, and its outcome once it has finished.      *)
(***************************************************************************)
\* a module-level name instead of a local one: every call sees the value
BindGlobal(frame, c, v) == [k \in DOMAIN frame |-> v]

\* assignment to a local name of call c (stringified, hash_alg)
Bind(frame, c, v) == [frame EXCEPT ![c] = v]

Init ==
  /\ obj = [c \in Calls |-> PyNone]
  /\ algorithm = [c \in Calls |-> "sha256"]
  /\ pc = [c \in Calls |-> "idle"]
  /\ stringified = [c \in Calls |-> <<>>]
  /\ hash_alg = [c \in Calls |-> Unbound]
  /\ outcome = [c \in Calls |-> NoOutcome]

\* line 67: the caller enters digest(o, a)
Call(c, o, a) ==
  /\ pc[c] = "idle"
  /\ obj' = [obj EXCEPT ![c] = o]
  /\ algorithm' = [algorithm EXCEPT ![c] = a]
  /\ pc' = [pc EXCEPT ![c] = "line96"]
  /\ UNCHANGED <<stringified, hash_alg, outcome>>

\* lines 95-100
Serialize(c) ==
  /\ pc[c] = "line96"
  /\ LET s == Stringify(obj[c])
     IN IF s.exc = NoExc
        THEN /\ stringified' = Bind(stringified, c, s.text)
             /\ pc' = [pc EXCEPT ![c] = "line102"]
             /\ UNCHANGED outcome
        ELSE /\ outcome' = [outcome EXCEPT ![c] = except_TypeError(s).outcome]
             /\ pc' = [pc EXCEPT ![c] = except_TypeError(s).pc]
             /\ UNCHANGED stringified
  /\ UNCHANGED <<obj, algorithm, hash_alg>>

\* lines 101-106
Lookup(c) ==
  /\ pc[c] = "line102"
  /\ LET g == getattr(algorithm[c])
     IN IF g.exc = NoExc
        THEN /\ hash_alg' = Bind(hash_alg, c, g.attr)
             /\ pc' = [pc EXCEPT ![c] = "line107"]
             /\ UNCHANGED outcome
        ELSE /\ outcome' = [outcome EXCEPT ![c] = except_AttributeError(g).outcome]
             /\ pc' = [pc EXCEPT ![c] = except_AttributeError(g).pc]
             /\ UNCHANGED hash_alg
  /\ UNCHANGED <<obj, algorithm, stringified>>

\* a hash salted anew on every run, as the built-in hash() is per process
HashSalted(c) ==
  /\ pc[c] = "line107"
  /\ \E salt \in {0, 1} :
       outcome' = [outcome EXCEPT
                     ![c] = hexdigest(hash_alg[c], stringified[c] \o <<salt>>)]
  /\ pc' = [pc EXCEPT ![c] = "done"]
  /\ UNCHANGED <<obj, algorithm, stringified, hash_alg>>

\* line 107
Hash(c) ==
  /\ pc[c] = "line107"
  /\ outcome' = [outcome EXCEPT ![c] = hexdigest(hash_alg[c], stringified[c])]
  /\ pc' = [pc EXCEPT ![c] = "done"]
  /\ UNCHANGED <<obj, algorithm, stringified, hash_alg>>

\* the caller has taken the outcome; the frame is gone
Discard(c) ==
  /\ pc[c] = "done"
  /\ obj' = [obj EXCEPT ![c] = PyNone]
  /\ algorithm' = [algorithm EXCEPT ![c] = "sha256"]
  /\ stringified' = [stringified EXCEPT ![c] = <<>>]
  /\ hash_alg' = [hash_alg EXCEPT ![c] = Unbound]
  /\ outcome' = [outcome EXCEPT ![c] = NoOutcome]
  /\ pc' = [pc EXCEPT ![c] = "idle"]

Next ==
  \/ \E c \in Calls, o \in Objects, a \in AlgorithmNames : Call(c, o, a)
  \/ \E c \in Calls : Serialize(c)
  \/ \E c \in Calls : Lookup(c)
  \/ \E c \in Calls : Hash(c)
  \/ \E c \in Calls : Discard(c)

Spec == Init /\ [][Next]_vars

(***************************************************************************)
(* Vocabulary of the properties.                                           *)
(***************************************************************************)
Done(c) == pc[c] = "done"

HasSurrogate(t) == \E i \in 1..Len(t) : IsSurrogate(t[i])

\* o is built only of null, booleans, numbers, strings of scalar values,
\* sequences and string-keyed mappings
RECURSIVE IsStructuredValue(_)
IsStructuredValue(o) ==
  CASE o.type \in {"NoneType", "bool", "int", "float", "nan"} -> TRUE
    [] o.type = "str" -> ~HasSurrogate(o.val)
    [] o.type = "list" -> \A i \in 1..Len(o.val) : IsStructuredValue(o.val[i])
    [] o.type = "dict" ->
         \A i \in 1..Len(o.val) :
           ~HasSurrogate(o.val[i][1]) /\ IsStructuredValue(o.val[i][2])
    [] OTHER -> FALSE

\* structural equality: the same variant tree, sequences compared in order,
\* mappings compared as sets of (key, value) pairs
RECURSIVE StructEq(_, _)
StructEq(a, b) ==
  /\ a.type = b.type
  /\ CASE a.type = "list" ->
            /\ Len(a.val) = Len(b.val)
            /\ \A i \in 1..Len(a.val) : StructEq(a.val[i], b.val[i])
       [] a.type = "dict" ->
            /\ Len(a.val) = Len(b.val)
            /\ \A i \in 1..Len(a.val) : \E j \in 1..Len(b.val) :
                 a.val[i][1] = b.val[j][1] /\ StructEq(a.val[i][2], b.val[j][2])
       [] OTHER -> a.val = b.val

\* the names of hashlib that are hash constructors
SupportedAlgorithm(a) ==
  a \in DOMAIN hashlib /\ hashlib[a].kind \in {"hash", "xof"}

\* the two failures of the docstring (lines 84-85), told apart by message
IsUnsupportedAlgorithm(out) ==
  /\ out.status = "raised"
  /\ IsInstance(out.exc, "ValueError")
  /\ out.msg = MsgNotAlgorithm

IsUnserializableInput(out) ==
  /\ out.status = "raised"
  /\ IsInstance(out.exc, "ValueError")
  /\ out.msg # MsgNotAlgorithm

HexAlphabet ==
  {"0", "1", "2", "3", "4", "5", "6", "7", "8", "9", "a", "b", "c", "d", "e", "f"}

HexValue(ch) == CHOOSE n \in 0..15 : HexDigits[n + 1] = ch

IsCompleteDigest(out, a) ==
  /\ out.status = "returned"
  /\ a \in DOMAIN hashlib
  /\ Len(out.value) = 2 * hashlib[a].size
  /\ \A i \in 1..Len(out.value) : out.value[i] \in HexAlphabet

(***************************************************************************)
(* C1. Key-order independence: two finished calls with the same supported  *)
(* algorithm whose values are structurally equal, that is, differ only in  *)
(* the insertion order of mapping keys at any depth, return the same       *)
(* digest string.                                                          *)
(***************************************************************************)
C1_KeyOrderIndependence ==
  \A c, d \in Calls :
    ( /\ Done(c) /\ Done(d)
      /\ algorithm[c] = algorithm[d]
      /\ SupportedAlgorithm(algorithm[c])
      /\ IsStructuredValue(obj[c]) /\ IsStructuredValue(obj[d])
      /\ StructEq(obj[c], obj[d]) )
    => /\ outcome[c].status = "returned"
       /\ outcome[c] = outcome[d]

C1_Witness ==
  /\ Done("t1") /\ Done("t2")
  /\ obj["t1"] = NestedZE /\ obj["t2"] = NestedEZ
  /\ algorithm["t1"] = "md5" /\ algorithm["t2"] = "md5"
  /\ outcome["t1"].status = "returned"
  /\ outcome["t1"] = outcome["t2"]

(***************************************************************************)
(* C2. A finished call with a serializable value and an algorithm name     *)
(* that does not name a supported hash function has failed with the        *)
(* unsupported-algorithm error.                                            *)
(***************************************************************************)
C2_UnsupportedAlgorithmFails ==
  \A c \in Calls :
    ( /\ Done(c)
      /\ IsStructuredValue(obj[c])
      /\ ~SupportedAlgorithm(algorithm[c]) )
    => IsUnsupportedAlgorithm(outcome[c])

(***************************************************************************)
(* C3. The failure for an unsupported algorithm name and the failure for   *)
(* an unserializable value are never of the same exception class.          *)
(***************************************************************************)
C3_DedicatedErrorKind ==
  \A c, d \in Calls :
    ( /\ Done(c) /\ Done(d)
      /\ IsStructuredValue(obj[c]) /\ algorithm[c] \notin DOMAIN hashlib
      /\ ~IsStructuredValue(obj[d]) )
    => outcome[c].exc # outcome[d].exc

(***************************************************************************)
(* C3, amended. The failure for an algorithm name hashlib does not have    *)
(* and the failure for an unserializable value are both ValueError, the    *)
(* class the docstring names for both, and differ in their message.        *)
(***************************************************************************)
C3_SameKindDistinctMessage ==
  \A c, d \in Calls :
    ( /\ Done(c) /\ Done(d)
      /\ IsStructuredValue(obj[c]) /\ algorithm[c] \notin DOMAIN hashlib
      /\ ~IsStructuredValue(obj[d]) )
    => /\ outcome[c].status = "raised" /\ outcome[d].status = "raised"
       /\ IsInstance(outcome[c].exc, "ValueError")
       /\ IsInstance(outcome[d].exc, "ValueError")
       /\ outcome[c].msg = MsgNotAlgorithm
       /\ outcome[d].msg # outcome[c].msg

C3_Witness ==
  /\ Done("t1") /\ Done("t2")
  /\ obj["t1"] = DictABC /\ algorithm["t1"] = "not-a-real-algorithm"
  /\ obj["t2"] = PyObject /\ algorithm["t2"] = "sha256"
  /\ outcome["t1"].exc = "ValueError" /\ outcome["t2"].exc = "ValueError"

(***************************************************************************)
(* C4. A finished call whose value holds an opaque object, a cyclic        *)
(* reference or a lone surrogate has, for any algorithm name, raised a     *)
(* ValueError that is not the unsupported-algorithm one, and returned no   *)
(* digest.                                                                 *)
(***************************************************************************)
C4_UnserializableInputFails ==
  \A c \in Calls :
    (Done(c) /\ ~IsStructuredValue(obj[c]))
    => /\ IsUnserializableInput(outcome[c])
       /\ outcome[c].value = <<>>

C4_Witness ==
  /\ Done("t1") /\ Done("t2")
  /\ obj["t1"] = LoneSurrogate /\ algorithm["t1"] = "new"
  /\ obj["t2"] = CyclicList /\ algorithm["t2"] = "md5"
  /\ IsUnserializableInput(outcome["t1"])
  /\ IsUnserializableInput(outcome["t2"])

(***************************************************************************)
(* C5. Every finished call has exactly one of three outcomes: a complete   *)
(* digest, the unserializable-input failure or the unsupported-algorithm   *)
(* failure; no other exception leaves the call.                            *)
(***************************************************************************)
C5_ThreeOutcomes ==
  \A c \in Calls :
    Done(c) =>
      \/ IsCompleteDigest(outcome[c], algorithm[c])
      \/ IsUnserializableInput(outcome[c])
      \/ IsUnsupportedAlgorithm(outcome[c])

(***************************************************************************)
(* C6. A returned digest is made of the characters 0-9 and a-f, is twice   *)
(* as long as the output of the selected hash function (64 for sha256, 40  *)
(* for sha1, 32 for md5), and its pairs of characters read as the bytes of *)
(* the hash of the canonical UTF-8 bytes of the value.                     *)
(***************************************************************************)
C6_LowercaseHexDigest ==
  \A c \in Calls :
    (Done(c) /\ outcome[c].status = "returned")
    => LET v == outcome[c].value
           a == algorithm[c]
       IN /\ IsCompleteDigest(outcome[c], a)
          /\ (a = "sha256" => Len(v) = 64)
          /\ (a = "sha1" => Len(v) = 40)
          /\ (a = "md5" => Len(v) = 32)
          /\ LET bytes == HashBytes(hashlib[a], Stringify(obj[c]).text)
             IN \A i \in 1..hashlib[a].size :
                  HexValue(v[2 * i - 1]) * 16 + HexValue(v[2 * i]) = bytes[i]

C6_Witness ==
  /\ Done("t1") /\ Done("t2")
  /\ obj["t1"] = DictABC /\ algorithm["t1"] = "sha256"
  /\ obj["t2"] = DictABC /\ algorithm["t2"] = "sha1"
  /\ Len(outcome["t1"].value) = 64
  /\ Len(outcome["t2"].value) = 40
  /\ \E i \in 1..64 : outcome["t1"].value[i] = "0"

(***************************************************************************)
(* C7. Determinism: two finished calls with the same value and the same    *)
(* algorithm name have the same outcome, whatever ran in between.          *)
(***************************************************************************)
C7_Determinism ==
  \A c, d \in Calls :
    ( /\ Done(c) /\ Done(d)
      /\ obj[c] = obj[d]
      /\ algorithm[c] = algorithm[d] )
    => outcome[c] = outcome[d]

C7_Witness ==
  /\ Done("t1") /\ Done("t2")
  /\ obj["t1"] = DictCAB /\ obj["t2"] = DictCAB
  /\ algorithm["t1"] = "sha1" /\ algorithm["t2"] = "sha1"
  /\ outcome["t1"].status = "returned"
  /\ outcome["t2"] = outcome["t1"]

(***************************************************************************)
(* C8. Two calls that have serialized structurally unequal values hold     *)
(* different canonical bytes; in particular a sequence and its reordering  *)
(* do.                                                                     *)
(***************************************************************************)
C8_UnequalValuesUnequalBytes ==
  \A c, d \in Calls :
    ( /\ pc[c] \in {"line102", "line107", "done"}
      /\ pc[d] \in {"line102", "line107", "done"}
      /\ IsStructuredValue(obj[c]) /\ IsStructuredValue(obj[d])
      /\ ~StructEq(obj[c], obj[d]) )
    => stringified[c] # stringified[d]

C8_Witness ==
  /\ pc["t1"] = "line102" /\ pc["t2"] = "line102"
  /\ obj["t1"] = PyList(<<PyInt(1), PyInt(2)>>)
  /\ obj["t2"] = PyList(<<PyInt(2), PyInt(1)>>)
  /\ stringified["t1"] = <<91, 49, 44, 32, 50, 93>>
  /\ stringified["t2"] = <<91, 50, 44, 32, 49, 93>>

(***************************************************************************)
(* C9. A finished call with an algorithm name hashlib does not have has    *)
(* failed with the unsupported-algorithm error, whether or not its value   *)
(* is serializable.                                                        *)
(***************************************************************************)
C9_AlgorithmCheckedFirst ==
  \A c \in Calls :
    (Done(c) /\ algorithm[c] \notin DOMAIN hashlib)
    => IsUnsupportedAlgorithm(outcome[c])

(***************************************************************************)
(* C9, amended. Serialization comes first: a call whose value is           *)
(* unserializable fails with the unserializable-input error whatever the   *)
(* algorithm name and never looks the name up, so the unsupported-         *)
(* algorithm error is only reported for a serializable value.              *)
(***************************************************************************)
C9_SerializationCheckedFirst ==
  \A c \in Calls :
    /\ (pc[c] # "idle" /\ ~IsStructuredValue(obj[c]))
         => /\ pc[c] \in {"line96", "done"}
            /\ hash_alg[c] = Unbound
            /\ Done(c) => IsUnserializableInput(outcome[c])
    /\ IsUnsupportedAlgorithm(outcome[c]) => IsStructuredValue(obj[c])

C9_Witness ==
  /\ Done("t1")
  /\ obj["t1"] = PyObject /\ algorithm["t1"] = "not-a-real-algorithm"
  /\ outcome["t1"] = Raised("ValueError", MsgNotSerializable)
  /\ Done("t2")
  /\ obj["t2"] = PyInt(1) /\ algorithm["t2"] = "not-a-real-algorithm"
  /\ outcome["t2"] = Raised("ValueError", MsgNotAlgorithm)

(***************************************************************************)
(* C10. Reentrancy: however the steps of the calls interleave, each call   *)
(* holds at every line the values it would hold when run alone, and        *)
(* finishes with the outcome of digest run alone on its own arguments.     *)
(***************************************************************************)
C10_Reentrant ==
  \A c \in Calls :
    /\ pc[c] \in {"line102", "line107"}
         => stringified[c] = Stringify(obj[c]).text
    /\ pc[c] = "line107" => hash_alg[c] = hashlib[algorithm[c]]
    /\ Done(c) => outcome[c] = digest(obj[c], algorithm[c])

C10_Witness ==
  /\ Done("t1") /\ pc["t2"] = "line107"
  /\ obj["t1"] = DictABC /\ algorithm["t1"] = "sha256"
  /\ obj["t2"] = DictOther /\ algorithm["t2"] = "md5"
  /\ outcome["t1"] = digest(DictABC, "sha256")
  /\ stringified["t2"] # stringified["t1"]

====
